---- MODULE Spec2Model ----
(***************************************************************************)
(* A model of scraper.py (class JobScraper): the list phase                *)
(* (scrape_list_pages and the sources it falls through), the job_listings  *)
(* table as the PostgreSQL statements of the code use it, and the detail   *)
(* phase (scrape_detail_pages).                                            *)
(*                                                                         *)
(* Python values are modelled as follows.                                  *)
(*   dict           a function whose domain is the set of keys present     *)
(*   list           a sequence                                             *)
(*   Optional[X]    a sequence of length 0 (None) or 1 (the value)         *)
(*   a call that may raise    a record [exc, val]; exc = "none" when the   *)
(*                  call returns val, otherwise the class of the exception *)
(***************************************************************************)
EXTENDS Integers, Sequences, FiniteSets, TLC

(***************************************************************************)
(* Bounds of the model.                                                    *)
(***************************************************************************)
\* insert statements are issued only while the SERIAL sequence is below this
MaxId == 2
\* longest batch handed directly to insert_jobs_to_database
MaxBatch == 2
\* the calls that may meet an error of the database
MaxDbErrors == 1

(***************************************************************************)
(* Python helpers.                                                         *)
(***************************************************************************)
EmptyDict == <<>>

\* dict.get(key, default)
Get(d, k, default) == IF k \in DOMAIN d THEN d[k] ELSE default

\* the concatenation of the sequences of ss, in order (append in a loop)
RECURSIVE Concat(_)
Concat(ss) == IF Len(ss) = 0 THEN <<>> ELSE Head(ss) \o Concat(Tail(ss))

\* the elements of the sequence s, as a set
Elements(s) == { s[i] : i \in 1..Len(s) }

\* s[:n]
Prefix(s, n) == SubSeq(s, 1, IF Len(s) < n THEN Len(s) ELSE n)

\* t in s, for strings
Contains(s, t) == \E i \in 1..(Len(s) - Len(t) + 1) : SubSeq(s, i, i + Len(t) - 1) = t

Returns(v) == [exc |-> "none", val |-> v]
Raises(kind) == [exc |-> kind, val |-> <<>>]

\* isinstance(exc, cls) for the classes the model tells apart: every exception
\* is an Exception, and "RequestException" stands for requests.RequestException
\* and its subclasses
IsInstance(exc, cls) == exc # "none" /\ (cls = "Exception" \/ exc = cls)

(***************************************************************************)
(* format_salary (scraper.py 363-384).                                     *)
(***************************************************************************)
\* three decimal digits of n, zero padded
Digits3(n) == ToString(n \div 100) \o ToString((n \div 10) % 10) \o ToString(n % 10)

\* f"{n:,}" for an integer n >= 0
RECURSIVE Commas(_)
Commas(n) == IF n < 1000 THEN ToString(n) ELSE Commas(n \div 1000) \o "," \o Digits3(n % 1000)

\* " | ".join(parts)
RECURSIVE Join(_, _)
Join(sep, parts) ==
    IF Len(parts) = 0 THEN ""
    ELSE IF Len(parts) = 1 THEN parts[1]
    ELSE parts[1] \o sep \o Join(sep, Tail(parts))

\* truth value of compensation.get(key): an absent key and the number 0 are falsy
Truthy(d, k) == k \in DOMAIN d /\ d[k] # 0

\* the salary part of format_salary (lines 371-375)
SalaryPart(compensation) ==
    IF Truthy(compensation, "minSalary") /\ Truthy(compensation, "maxSalary")
    THEN << Get(compensation, "currency", "USD") \o " " \o Commas(compensation["minSalary"])
            \o " - " \o Commas(compensation["maxSalary"]) >>
    ELSE <<>>

\* the equity part of format_salary (lines 377-379); equity['min'] raises KeyError
\* when the key is missing
EquityPart(compensation) ==
    IF "equity" \in DOMAIN compensation /\ compensation["equity"] # EmptyDict
    THEN LET equity == compensation["equity"] IN
         IF {"min", "max"} \subseteq DOMAIN equity
         THEN Returns(<< "Equity: " \o ToString(equity["min"]) \o "-"
                         \o ToString(equity["max"]) \o "%" >>)
         ELSE Raises("KeyError")
    ELSE Returns(<<>>)

\* compensation is Optional[dict]: <<>> is None
format_salary(compensation) ==
    IF Len(compensation) = 0 \/ compensation[1] = EmptyDict THEN "Not specified"
    ELSE LET c == compensation[1]
             eq == EquityPart(c)
             salary_parts == SalaryPart(c) \o eq.val
         IN  IF eq.exc # "none" THEN "Not specified"
             ELSE IF Len(salary_parts) > 0 THEN Join(" | ", salary_parts)
             ELSE "Not specified"

(***************************************************************************)
(* extract_job_data (scraper.py 315-361).                                  *)
(***************************************************************************)
\* dict.get(key) as an Optional
GetOpt(d, k) == IF k \in DOMAIN d THEN << d[k] >> ELSE <<>>

\* the dict built at lines 322-329, 334-341 and 347-354 from the node that
\* carries the company fields and its first highlighted listing
JobDict(job_node, job_listing) ==
    [ job_title    |-> Get(job_listing, "title", "N/A"),
      company_name |-> Get(job_node, "name", "N/A"),
      location     |-> Get(job_node, "location", "Remote"),
      salary_info  |-> format_salary(GetOpt(job_listing, "compensation")),
      job_url      |-> "https://wellfound.com/company/" \o Get(job_node, "slug", "")
                       \o "/jobs/" \o Get(job_listing, "id", ""),
      source_site  |-> "Wellfound" ]

\* node.get('highlightedJobListings', [{}])[0] and the dict built from it; the
\* index raises IndexError on an empty list
FromListing(job_node) ==
    LET listings == Get(job_node, "highlightedJobListings", << EmptyDict >>) IN
    IF Len(listings) = 0 THEN Raises("IndexError")
    ELSE Returns(<< JobDict(job_node, listings[1]) >>)

\* lines 318-357, the body of the try; the value is an Optional[dict], <<>>
\* is None.  The loop of line 344 builds a dict from the first entry and
\* breaks; with no entry job_data stays None.
ExtractJobDataBody(node) ==
    LET typename == Get(node, "__typename", "") IN
    IF typename = "StartupSearchResult" THEN FromListing(node)
    ELSE IF typename = "PromotedResult" THEN FromListing(Get(node, "promotedStartup", node))
    ELSE IF typename = "FeaturedStartups" THEN
        LET featured == Get(node, "featuredStartups", <<>>) IN
        IF Len(featured) = 0 THEN Returns(<<>>)
        ELSE FromListing(Get(featured[1], "promotedStartup", featured[1]))
    ELSE Returns(<<>>)

\* the record is read as a direct listing whatever its __typename
ExtractAnyShape(node) ==
    LET r == FromListing(node) IN
    IF IsInstance(r.exc, "Exception") THEN Returns(<<>>) ELSE r

\* lines 317-361: the handler of line 359 turns every exception of the body
\* into the result None
extract_job_data(node) ==
    LET r == ExtractJobDataBody(node) IN
    IF IsInstance(r.exc, "Exception") THEN Returns(<<>>) ELSE r

(***************************************************************************)
(* try_wellfound_scraping (scraper.py 153-205).                            *)
(*                                                                         *)
(* What requests.post and the decoding of its response can do is the       *)
(* record resp:                                                            *)
(*   net     "error": requests.post raises a RequestException (connection  *)
(*           error, timeout); "ok": a response arrived                     *)
(*   status  the HTTP status code                                          *)
(*   body    "undecodable": response.json() raises JSONDecodeError and the *)
(*           brotli fallback of lines 190-191 raises as well;              *)
(*           "null_path": the payload decodes but a dict on the path       *)
(*           data/talent/jobSearchResults/startups is null, so .get is     *)
(*           called on None; "edges": the path is traversed                *)
(*   edges   the list found at the end of the path ([] when a key of the   *)
(*           path is missing)                                              *)
(***************************************************************************)
\* lines 197-200: the jobs one edge contributes, appended when job_data is
\* not None
EdgeJobs(edge) == extract_job_data(Get(edge, "node", EmptyDict))

\* lines 195-202: the loop over the edges; an exception of extract_job_data
\* would leave the loop
EdgesResult(edges) ==
    LET results == [ i \in 1..Len(edges) |-> EdgeJobs(edges[i]) ]
        raised  == { i \in 1..Len(edges) : results[i].exc # "none" }
    IN  IF raised # {}
        THEN Raises(results[CHOOSE i \in raised : \A j \in raised : i <= j].exc)
        ELSE Returns(Concat([ i \in 1..Len(edges) |-> results[i].val ]))

\* the body with status 403 not told apart from a payload that cannot be read
WellfoundBodyBlockedRaises(resp) ==
    IF resp.net = "error" THEN Raises("RequestException")
    ELSE IF resp.status = 403 THEN Raises("Exception")
    ELSE IF resp.status >= 400 THEN Raises("RequestException")
    ELSE IF resp.body = "undecodable" THEN Raises("Exception")
    ELSE IF resp.body = "null_path" THEN Raises("Exception")
    ELSE EdgesResult(resp.edges)

\* lines 156-202, the body of the try: a network error and the HTTPError of
\* raise_for_status (line 185) are RequestExceptions; a failed decode and a
\* null on the path raise exceptions of other classes
WellfoundBody(resp) ==
    IF resp.net = "error" THEN Raises("RequestException")
    ELSE IF resp.status = 403 THEN Returns(<<>>)
    ELSE IF resp.status >= 400 THEN Raises("RequestException")
    ELSE IF resp.body = "undecodable" THEN Raises("Exception")
    ELSE IF resp.body = "null_path" THEN Raises("Exception")
    ELSE EdgesResult(resp.edges)

\* the handler of line 204 catches RequestException only
try_wellfound_scraping(resp) ==
    LET r == WellfoundBody(resp) IN
    IF IsInstance(r.exc, "RequestException") THEN Returns(<<>>) ELSE r

(***************************************************************************)
(* scrape_weworkremotely (scraper.py 207-313).                             *)
(*                                                                         *)
(* The answer of requests.get and of BeautifulSoup is the record page:     *)
(*   net     "error" when requests.get raises, else "ok"                   *)
(*   status  the HTTP status code                                          *)
(*   parse   "error" when building the soup raises, else "ok"              *)
(*   items   the <li class="feature"> elements, in document order; an item *)
(*           is a dict with the keys it has: "href" (the first <a>;        *)
(*           absent when the item has no link or the link no href),        *)
(*           "a" (present when the item has a link), "title", "company"    *)
(*           (the text of the spans, present when the span is)             *)
(***************************************************************************)
UpperCase == "ABCDEFGHIJKLMNOPQRSTUVWXYZ"
LowerCase == "abcdefghijklmnopqrstuvwxyz"

\* str.lower() of a one-character string
LowerChar(c) ==
    IF \E i \in 1..26 : SubSeq(UpperCase, i, i) = c
    THEN LET i == CHOOSE k \in 1..26 : SubSeq(UpperCase, k, k) = c IN SubSeq(LowerCase, i, i)
    ELSE c

\* str.lower()
RECURSIVE Lower(_)
Lower(s) == IF Len(s) = 0 THEN "" ELSE LowerChar(SubSeq(s, 1, 1)) \o Lower(SubSeq(s, 2, Len(s)))

\* line 247
FilterTerms == << "data", "analyst", "python", "scientist" >>

Relevant(job_title) ==
    \E i \in 1..Len(FilterTerms) : Contains(Lower(job_title), Lower(FilterTerms[i]))

\* line 229
ListLimit == 10

\* lines 230-260: the jobs one list item contributes
ItemJobs(job_li) ==
    IF "a" \notin DOMAIN job_li THEN <<>>
    ELSE IF "title" \in DOMAIN job_li /\ "company" \in DOMAIN job_li
            /\ Relevant(job_li["title"])
    THEN << [ job_title    |-> job_li["title"],
              company_name |-> job_li["company"],
              location     |-> "Remote",
              salary_info  |-> "Not specified",
              job_url      |-> "https://weworkremotely.com" \o Get(job_li, "href", ""),
              source_site  |-> "WeWorkRemotely" ] >>
    ELSE <<>>

\* lines 264-305
sample_jobs ==
    << [ job_title    |-> "Senior Data Analyst",
         company_name |-> "TechCorp International",
         location     |-> "Remote, UK",
         salary_info  |-> "GBP45,000 - GBP65,000",
         job_url      |-> "https://example.com/job/senior-data-analyst-1",
         source_site  |-> "WeWorkRemotely" ],
       [ job_title    |-> "Python Developer",
         company_name |-> "DataFlow Solutions",
         location     |-> "London, UK",
         salary_info  |-> "GBP50,000 - GBP70,000",
         job_url      |-> "https://example.com/job/python-developer-2",
         source_site  |-> "WeWorkRemotely" ],
       [ job_title    |-> "Business Data Scientist",
         company_name |-> "Analytics Pro Ltd",
         location     |-> "Manchester, UK",
         salary_info  |-> "GBP55,000 - GBP75,000",
         job_url      |-> "https://example.com/job/data-scientist-3",
         source_site  |-> "WeWorkRemotely" ],
       [ job_title    |-> "Junior Data Analyst",
         company_name |-> "StartupTech",
         location     |-> "Remote",
         salary_info  |-> "GBP30,000 - GBP45,000",
         job_url      |-> "https://example.com/job/junior-analyst-4",
         source_site  |-> "WeWorkRemotely" ],
       [ job_title    |-> "Senior Python Engineer",
         company_name |-> "FinTech Innovations",
         location     |-> "Edinburgh, UK",
         salary_info  |-> "GBP60,000 - GBP80,000",
         job_url      |-> "https://example.com/job/python-engineer-5",
         source_site  |-> "WeWorkRemotely" ] >>

\* the loop of line 229 over every list item of the page
ParsedJobsWholePage(page) ==
    Concat([ i \in 1..Len(page.items) |-> ItemJobs(page.items[i]) ])

\* lines 229-260: the jobs parsed from the page
ParsedJobs(page) ==
    LET items == Prefix(page.items, ListLimit) IN
    Concat([ i \in 1..Len(items) |-> ItemJobs(items[i]) ])

\* the body without the sample jobs of lines 263-307
WeWorkRemotelyBodyNoSamples(page) ==
    IF page.net = "error" \/ page.status >= 400 THEN Raises("RequestException")
    ELSE IF page.parse = "error" THEN Raises("Exception")
    ELSE Returns(ParsedJobs(page))

\* lines 214-309, the body of the try
WeWorkRemotelyBody(page) ==
    IF page.net = "error" \/ page.status >= 400 THEN Raises("RequestException")
    ELSE IF page.parse = "error" THEN Raises("Exception")
    ELSE LET jobs == ParsedJobs(page) IN
         Returns(IF Len(jobs) = 0 THEN jobs \o sample_jobs ELSE jobs)

\* the handler of line 311 catches every Exception and returns []
scrape_weworkremotely(page) ==
    LET r == WeWorkRemotelyBody(page) IN
    IF IsInstance(r.exc, "Exception") THEN Returns(<<>>) ELSE r

(***************************************************************************)
(* The job_listings table (scraper.py 96-108) and insert_jobs_to_database  *)
(* (scraper.py 386-421).                                                   *)
(*                                                                         *)
(* rows is the committed content of the table.  id is SERIAL: every INSERT *)
(* statement draws the next value of the sequence, also when ON CONFLICT   *)
(* DO NOTHING then skips the row, and a rollback does not give values      *)
(* back.  scraped_at defaults to CURRENT_TIMESTAMP, the start time of the  *)
(* transaction, so the rows of one batch share it; clock counts the        *)
(* transactions that executed an INSERT.  job_description is NULL (<<>>) or <<text>>.*)
(***************************************************************************)
NULL == <<>>

\* the row one INSERT statement adds (lines 392-408)
NewRow(job, id, now) ==
    [ id              |-> id,
      job_title       |-> job.job_title,
      company_name    |-> job.company_name,
      location        |-> job.location,
      job_url         |-> job.job_url,
      salary_info     |-> job.salary_info,
      job_description |-> NULL,
      source_site     |-> job.source_site,
      scraped_at      |-> now ]

\* INSERT ... ON CONFLICT (job_url) DO UPDATE: the conflicting row takes the
\* values of the new record
InsertOrUpdate(table, job, id, now) ==
    { r \in table : r.job_url # job.job_url } \cup { NewRow(job, id, now) }

\* INSERT ... ON CONFLICT (job_url) DO NOTHING
InsertOrIgnore(table, job, id, now) ==
    IF \E r \in table : r.job_url = job.job_url THEN table
    ELSE table \cup { NewRow(job, id, now) }

\* the loop of lines 399-413 over jobs[1..n]: the table inside the transaction
RECURSIVE Executed(_, _, _, _, _)
Executed(table, jobs, n, firstId, now) ==
    IF n = 0 THEN table
    ELSE InsertOrIgnore(Executed(table, jobs, n - 1, firstId, now), jobs[n], firstId + n - 1, now)

\* successful_inserts after the loop: line 409 runs for every statement that
\* did not raise, and a skipped conflict does not raise
SuccessfulInserts(jobs) == Len(jobs)

NoFailure == -1

\* failAt = NoFailure: every statement and the commit succeed.  failAt = k >= 0:
\* the database raises after k statements were executed (k = Len(jobs): the
\* commit raises); nothing is committed and the exception is re-raised at 421.
insert_jobs_to_database(table, seq, now, jobs, failAt) ==
    IF failAt = NoFailure
    THEN [ exc      |-> "none",
           rows     |-> Executed(table, jobs, Len(jobs), seq, now),
           nextId   |-> seq + Len(jobs),
           clock    |-> IF Len(jobs) > 0 THEN now + 1 ELSE now,
           reported |-> SuccessfulInserts(jobs) ]
    ELSE [ exc      |-> "Exception",
           rows     |-> table,
           nextId   |-> seq + failAt,
           clock    |-> now,
           reported |-> NoFailure ]

(***************************************************************************)
(* scrape_list_pages (scraper.py 119-151).                                 *)
(***************************************************************************)
\* both sources contacted whatever the first yields, their jobs concatenated
AcquireBoth(resp, page) ==
    LET wellfound_jobs == try_wellfound_scraping(resp)
        wwr_jobs == scrape_weworkremotely(page)
    IN  [ exc |-> wellfound_jobs.exc, tier1 |-> wellfound_jobs.val, tier2_called |-> TRUE,
          wwr_jobs |-> wwr_jobs.val, all_jobs |-> wellfound_jobs.val \o wwr_jobs.val ]

\* lines 132-139: the sources contacted and the jobs acquired
Acquire(resp, page) ==
    LET wellfound_jobs == try_wellfound_scraping(resp) IN
    IF wellfound_jobs.exc # "none"
    THEN [ exc |-> wellfound_jobs.exc, tier1 |-> <<>>, tier2_called |-> FALSE,
           wwr_jobs |-> <<>>, all_jobs |-> <<>> ]
    ELSE IF Len(wellfound_jobs.val) > 0
    THEN [ exc |-> "none", tier1 |-> wellfound_jobs.val, tier2_called |-> FALSE,
           wwr_jobs |-> <<>>, all_jobs |-> wellfound_jobs.val ]
    ELSE LET wwr_jobs == scrape_weworkremotely(page) IN
         [ exc |-> wwr_jobs.exc, tier1 |-> <<>>, tier2_called |-> TRUE,
           wwr_jobs |-> wwr_jobs.val, all_jobs |-> wwr_jobs.val ]

\* lines 143-147: the insert when all_jobs is not empty, after the acquisition acq
InsertAcquired(table, seq, now, acq, failAt) ==
    IF acq.exc = "none" /\ Len(acq.all_jobs) > 0
    THEN [ called |-> TRUE ] @@ insert_jobs_to_database(table, seq, now, acq.all_jobs, failAt)
    ELSE [ called |-> FALSE, exc |-> "none", rows |-> table, nextId |-> seq, clock |-> now,
           reported |-> NoFailure ]

\* what the body of the try leaves: the exception it raises or the value it returns
BodyResult(acq, ins) ==
    [ exc |-> IF acq.exc # "none" THEN acq.exc ELSE ins.exc,
      val |-> acq.all_jobs,
      acq |-> acq,
      ins |-> ins ]

\* a handler that catches RequestException only, as line 204 does
ListPagesHandlerNarrow(r) ==
    IF IsInstance(r.exc, "RequestException") THEN [ r EXCEPT !.exc = "none", !.val = <<>> ] ELSE r

\* the handler of line 149 catches every Exception and returns []
ListPagesHandler(r) ==
    IF IsInstance(r.exc, "Exception") THEN [ r EXCEPT !.exc = "none", !.val = <<>> ] ELSE r

\* lines 143-151 after the acquisition acq: the insert, and the handler
ListPagesAfter(table, seq, now, acq, failAt) ==
    ListPagesHandler(BodyResult(acq, InsertAcquired(table, seq, now, acq, failAt)))

\* the whole call: what it returns or raises (exc, val), what it leaves in the
\* database (ins), and what happened inside it (acq)
scrape_list_pages(table, seq, now, resp, page, failAt) ==
    ListPagesAfter(table, seq, now, Acquire(resp, page), failAt)

(***************************************************************************)
(* The detail phase: get_jobs_without_descriptions (scraper.py 652-673),   *)
(* update_job_description (675-692), generate_sample_description (529-589),*)
(* scrape_url_with_selenium (483-527).                                     *)
(***************************************************************************)
\* line 662
PendingLimit == 10

Pending(table) == { r \in table : r.job_description = NULL }

\* the rows of S sorted by scraped_at ascending
RECURSIVE OldestFirst(_, _)
OldestFirst(S, asc) ==
    IF S = {} THEN <<>>
    ELSE LET first == CHOOSE r \in S : \A o \in S \ { r } :
                         \/ r.scraped_at < o.scraped_at
                         \/ r.scraped_at = o.scraped_at /\ (IF asc THEN r.id < o.id ELSE r.id > o.id)
         IN  << first >> \o OldestFirst(S \ { first }, asc)

\* the rows of S sorted by scraped_at descending; rows of equal scraped_at come
\* by id ascending (asc) or descending: SQL leaves their order open
Precedes(o, r, asc) ==
    \/ o.scraped_at > r.scraped_at
    \/ o.scraped_at = r.scraped_at /\ (IF asc THEN o.id < r.id ELSE o.id > r.id)

\* the row at place i is the one that i - 1 rows precede
NewestFirst(S, asc) ==
    IF S = {} THEN <<>>
    ELSE [ i \in 1..Cardinality(S) |->
             CHOOSE r \in S : Cardinality({ o \in S : Precedes(o, r, asc) }) = i - 1 ]

\* the (id, job_url) tuple of a row
WorkItem(r) == << r.id, r.job_url >>

WorkItems(rs) == [ i \in 1..Len(rs) |-> WorkItem(rs[i]) ]

\* SELECT id, job_url ... WHERE job_description IS NULL ORDER BY scraped_at
\* DESC LIMIT 10; a database error is caught at line 671 and [] is returned
get_jobs_without_descriptions(table, asc, dbFails) ==
    IF dbFails THEN <<>>
    ELSE WorkItems(Prefix(NewestFirst(Pending(table), asc), PendingLimit))

\* the UPDATE without its WHERE clause
SetDescriptionEveryRow(table, job_id, description) ==
    { [ r EXCEPT !.job_description = << description >> ] : r \in table }

\* UPDATE job_listings SET job_description = %s WHERE id = %s, committed
SetDescription(table, job_id, description) ==
    { IF r.id = job_id THEN [ r EXCEPT !.job_description = << description >> ] ELSE r : r \in table }

\* a database error is re-raised at line 692 and nothing is committed
update_job_description(table, job_id, description, dbFails) ==
    IF dbFails THEN [ exc |-> "Exception", rows |-> table ]
    ELSE [ exc |-> "none", rows |-> SetDescription(table, job_id, description) ]

\* lines 531-585; each text stands for the description that starts with it
sample_descriptions ==
    << "We are looking for a talented Data Analyst to join our growing team.",
       "Join our innovative team as a Python Developer!",
       "Data Scientist position available for a forward-thinking professional" >>

\* the index taken from job_id, not from job_id - 1
SampleByIdModN(job_id) == sample_descriptions[(job_id % Len(sample_descriptions)) + 1]

\* lines 587-589 (the sequence is indexed from 1)
generate_sample_description(job_id) ==
    sample_descriptions[((job_id - 1) % Len(sample_descriptions)) + 1]

\* line 511
MinSelectorLength == 100

\* line 520
BodyLimit == 2000

\* line 522
NotExtracted == "Description could not be extracted from this URL"

\* lines 505-514: the selectors from the i-th on, with job_description so far;
\* found[i] is <<>> when wait.until raises for selector i, else << its text >>
RECURSIVE ProbeSelectors(_, _, _)
ProbeSelectors(found, i, job_description) ==
    IF i > Len(found) THEN job_description
    ELSE IF Len(found[i]) = 0 THEN ProbeSelectors(found, i + 1, job_description)
    ELSE IF Len(found[i][1]) > MinSelectorLength THEN found[i]
    ELSE ProbeSelectors(found, i + 1, found[i])

\* lines 516-522: the fallback to the text of the body
BodyFallback(job_description, body) ==
    IF Len(job_description) = 0 \/ job_description[1] = ""
       \/ Len(job_description[1]) < MinSelectorLength
    THEN IF Len(body) = 0 THEN NotExtracted ELSE Prefix(body[1], BodyLimit)
    ELSE job_description[1]

\* fetch is what the browser does for the URL: get = "error" when driver.get
\* raises (message is str(e)), found the outcome of each selector, body <<>>
\* when find_element raises, else << the text of the body >>
scrape_url_with_selenium(fetch) ==
    IF fetch.get = "error" THEN "Error accessing URL: " \o fetch.message
    ELSE BodyFallback(ProbeSelectors(fetch.found, 1, <<>>), fetch.body)

\* line 455
IsSampleUrl(job_url) == Contains(job_url, "example.com")

\* line 474
FallbackDescription(message) ==
    "Job description could not be extracted. Error: " \o Prefix(message, 100)

(***************************************************************************)
(* The inputs the model draws from: answers of the primary source, pages   *)
(* of the secondary source, batches handed to insert_jobs_to_database.     *)
(***************************************************************************)
Listing(title, id) == [ title |-> title, id |-> id ]

PaidListing(title, id) ==
    [ title |-> title, id |-> id,
      compensation |-> [ minSalary |-> 50000, maxSalary |-> 1250000, currency |-> "EUR",
                         equity |-> [ min |-> 0, max |-> 2 ] ] ]

Startup(name, slug, listings) ==
    [ name |-> name, slug |-> slug, location |-> "Berlin", highlightedJobListings |-> listings ]

NodePromoted ==
    ("__typename" :> "PromotedResult")
    @@ [ promotedStartup |->
           Startup("Globex", "globex", << PaidListing("Python Developer", "201"),
                                          Listing("Cook", "202") >>) ]

NodeFeatured ==
    ("__typename" :> "FeaturedStartups")
    @@ [ featuredStartups |->
           << [ promotedStartup |-> Startup("Initech", "initech", << Listing("Data Scientist", "301") >>) ],
              Startup("Hooli", "hooli", << Listing("Analyst", "401") >>) >> ]

NodeUnknown == ("__typename" :> "JobListingSearchResult") @@ Startup("Umbrella", "umbrella", <<>>)

NodeNoListing == ("__typename" :> "StartupSearchResult") @@ Startup("Vandelay", "vandelay", <<>>)

Edge(node) == [ node |-> node ]

Answer(net, status, body, edges) == [ net |-> net, status |-> status, body |-> body, edges |-> edges ]

PrimaryAnswers ==
    << Answer("error", 0, "edges", <<>>),
       Answer("ok", 403, "edges", <<>>),
       Answer("ok", 500, "edges", <<>>),
       Answer("ok", 200, "undecodable", <<>>),
       Answer("ok", 200, "null_path", <<>>),
       Answer("ok", 200, "edges", <<>>),
       Answer("ok", 200, "edges", << Edge(NodeUnknown), EmptyDict, Edge(NodeNoListing) >>),
       Answer("ok", 200, "edges", << Edge(NodeUnknown), Edge(NodePromoted), Edge(NodeFeatured) >>) >>

Item(href, title, company) == [ a |-> TRUE, href |-> href, title |-> title, company |-> company ]

ItemRelevant == Item("/remote-jobs/acme-data-engineer", "Senior DATA Engineer", "Acme")

ItemOther == Item("/remote-jobs/initech-rust", "Rust Engineer", "Initech")

ItemNoLink == [ title |-> "Data Scientist", company |-> "Hooli" ]

ItemNoCompany == [ a |-> TRUE, href |-> "/remote-jobs/hooli-analyst", title |-> "Analyst" ]

\* n list items that the keyword filter rejects
RECURSIVE Fillers(_)
Fillers(n) ==
    IF n = 0 THEN <<>>
    ELSE Append(Fillers(n - 1), Item("/remote-jobs/filler-" \o ToString(n), "Backend Engineer", "Filler"))

Page(net, status, parse, items) == [ net |-> net, status |-> status, parse |-> parse, items |-> items ]

SecondaryPages ==
    << Page("error", 0, "ok", <<>>),
       Page("ok", 503, "ok", <<>>),
       Page("ok", 200, "error", <<>>),
       Page("ok", 200, "ok", <<>>),
       Page("ok", 200, "ok", << ItemOther, ItemNoLink, ItemNoCompany >>),
        Page("ok", 200, "ok", << ItemOther, ItemNoLink, ItemRelevant >>),
       Page("ok", 200, "ok", Fillers(ListLimit) \o << ItemRelevant >>) >>

\* Acquire reads nothing but the two answers: it is tabulated once, for every
\* pair of an answer of the primary source and a page of the secondary source
\* (a and p number them)
\* what try_wellfound_scraping returns for each answer, what
\* scrape_weworkremotely returns and parses for each page: they read nothing
\* but the answer, tabulated once
Tier1Table == [ a \in 1..Len(PrimaryAnswers) |-> try_wellfound_scraping(PrimaryAnswers[a]) ]

Tier2Table == [ p \in 1..Len(SecondaryPages) |-> scrape_weworkremotely(SecondaryPages[p]) ]

ParsedTable == [ p \in 1..Len(SecondaryPages) |-> ParsedJobs(SecondaryPages[p]) ]

AcquireCases ==
    { [ a |-> a, p |-> p, acq |-> Acquire(PrimaryAnswers[a], SecondaryPages[p]) ] :
        a \in 1..Len(PrimaryAnswers), p \in 1..Len(SecondaryPages) }

Job(title, url, site) ==
    [ job_title |-> title, company_name |-> "Acme", location |-> "Remote",
      salary_info |-> "Not specified", job_url |-> url, source_site |-> site ]

DirectJobs ==
    { Job("Data Analyst", "https://jobs.test/1", "Test"),
      Job("Data Analyst II", "https://jobs.test/1", "Test") }

RECURSIVE SeqsUpTo(_, _)
SeqsUpTo(S, n) ==
    IF n = 0 THEN { <<>> }
    ELSE LET shorter == SeqsUpTo(S, n - 1) IN
         shorter \cup { Append(q, x) : q \in shorter, x \in S }

DirectBatches == SeqsUpTo(DirectJobs, MaxBatch)

\* a string of n characters c
RECURSIVE Text(_, _)
Text(c, n) ==
    IF n = 0 THEN ""
    ELSE Text(c, n \div 2) \o Text(c, n \div 2) \o (IF n % 2 = 1 THEN c ELSE "")

Fetch(get, message, found, body) ==
    [ get |-> get, message |-> message, found |-> found, body |-> body ]

\* no element for any of the 7 selectors of lines 493-501
NoneFound == << <<>>, <<>>, <<>>, <<>>, <<>>, <<>>, <<>> >>

Fetches ==
    << Fetch("error", Text("e", 120), NoneFound, <<>>),
       Fetch("ok", "", [ NoneFound EXCEPT ![2] = << Text("s", 40) >>, ![4] = << Text("d", 150) >>,
                                          ![6] = << Text("m", 300) >> ], << Text("b", 400) >>),
       Fetch("ok", "", NoneFound, << "" >>) >>

\* scrape_url_with_selenium reads nothing but the fetch: tabulated once
FetchCases == { [ f |-> f, text |-> scrape_url_with_selenium(Fetches[f]) ] : f \in 1..Len(Fetches) }

\* what a statement sent to the database can do: <<>> it succeeds, << message >>
\* it raises an error with this message
DbError == << Text("x", 120) >>

\* the outcomes a statement can have when errors so far were met by n calls
DbOutcomes(n) == IF n < MaxDbErrors THEN { <<>>, DbError } ELSE { <<>> }

\* the points at which the database can fail during an insert of jobs
FailPoints(jobs, n) == IF n < MaxDbErrors THEN { NoFailure } \cup (0..Len(jobs)) ELSE { NoFailure }

(***************************************************************************)
(* The inputs of the functions called on their own: nodes handed to        *)
(* extract_job_data and edge lists handed to the loop of                   *)
(* try_wellfound_scraping.                                                 *)
(***************************************************************************)
\* the listings a company record can carry under highlightedJobListings:
\* <<>> the key is absent, else << the list >>
ListingLists ==
    { <<>>,
      << <<>> >>,
      << << Listing("Data Analyst", "11") >> >>,
      << << [ id |-> "12" ] >> >>,
      << << PaidListing("Data Engineer", "13"), Listing("Cook", "14") >> >> }

\* a company record with the keys it has
Company(name, location, listings) ==
    (IF Len(name) = 0 THEN EmptyDict ELSE [ name |-> name[1] ])
    @@ (IF Len(location) = 0 THEN EmptyDict ELSE [ location |-> location[1] ])
    @@ (IF Len(listings) = 0 THEN EmptyDict ELSE [ highlightedJobListings |-> listings[1] ])
    @@ [ slug |-> "acme" ]

Companies ==
    { Company(name, location, listings) :
        name \in { <<>>, << "Acme" >> }, location \in { <<>>, << "Paris" >> },
        listings \in ListingLists }

\* an entry of featuredStartups or a PromotedResult: the company under
\* promotedStartup, or the company itself
Wrapped(company) == [ promotedStartup |-> company ]

Entries == Companies \cup { Wrapped(c) : c \in Companies }

\* the entries that follow the first one in a featured group
LaterEntries ==
    { Startup("Hooli", "hooli", << Listing("Analyst", "401") >>),
      Wrapped(Startup("Initech", "initech", << PaidListing("Data Scientist", "301") >>)),
      Startup("Vandelay", "vandelay", <<>>) }

Typed(typename, fields) == ("__typename" :> typename) @@ fields

FeaturedGroups ==
    { Typed("FeaturedStartups", EmptyDict), Typed("FeaturedStartups", [ featuredStartups |-> <<>> ]) }
    \cup { Typed("FeaturedStartups", [ featuredStartups |-> << e >> ]) : e \in Entries }
    \cup { Typed("FeaturedStartups", [ featuredStartups |-> << e, l >> ]) :
             e \in Entries, l \in LaterEntries }
    \cup { Typed("FeaturedStartups", [ featuredStartups |-> << e, l, e >> ]) :
             e \in LaterEntries, l \in LaterEntries }

KnownTypenames == { "StartupSearchResult", "PromotedResult", "FeaturedStartups" }

\* the nodes extract_job_data is called with
Nodes ==
    { Typed("StartupSearchResult", c) : c \in Companies }
    \cup { Typed("PromotedResult", e) : e \in Entries }
    \cup FeaturedGroups
    \cup { Typed(t, e) : t \in { "JobListingSearchResult", "startupsearchresult" }, e \in Entries }
    \cup Entries
    \cup { EmptyDict, Typed("JobListingSearchResult", [ featuredStartups |-> << NodeNoListing >> ]) }

\* a dict with the key k when v is << its value >>, empty when v is <<>>
Key(k, v) == IF Len(v) = 0 THEN EmptyDict ELSE (k :> v[1])

\* the compensation format_salary is called with: None, {} and the dicts
\* over these values of the four keys (<<>> the key is absent)
Compensations ==
    { <<>>, << EmptyDict >> }
    \cup { << Key("minSalary", lo) @@ Key("maxSalary", hi) @@ Key("currency", cur) @@ Key("equity", eq) >> :
             lo  \in { <<>>, << 0 >>, << 50000 >> },
             hi  \in { <<>>, << 0 >>, << 80000 >>, << 1250000 >> },
             cur \in { <<>>, << "EUR" >> },
             eq  \in { <<>>, << EmptyDict >>, << [ min |-> 0, max |-> 2 ] >>,
                       << [ min |-> 1, max |-> 1 ] >>, << [ max |-> 2 ] >> } }

\* the most rows a table handed to get_jobs_without_descriptions holds
MaxRows == 12

\* the table after rows 1..n were inserted in batches of batch rows, one
\* transaction each, and the rows whose id is a multiple of every (none when
\* every is 0) were given a description
StoredTable(n, batch, every) ==
    { [ NewRow(Job("Data Analyst", "https://jobs.test/" \o ToString(id), "Test"),
               id, ((id - 1) \div batch) + 1)
          EXCEPT !.job_description = IF every > 0 /\ id % every = 0 THEN << "described" >> ELSE NULL ] :
        id \in 1..n }

Tables ==
    { StoredTable(n, batch, every) : n \in 0..MaxRows, batch \in { 1, 4, MaxRows }, every \in { 0, 2, 7 } }

\* the most selectors for which the page holds an element
MaxFound == 3

\* the lengths of the text of an element: around the threshold of line 511
TextLengths == { MinSelectorLength - 1, MinSelectorLength, MinSelectorLength + 1 }

\* what the 7 selectors find: for MaxFound of them at most an element, whose
\* text is made of the digit of the selector
Founds ==
    { found \in [ 1..Len(NoneFound) ->
                    { <<>> } \cup { << n >> : n \in TextLengths } ] :
        Cardinality({ i \in 1..Len(NoneFound) : Len(found[i]) > 0 }) <= MaxFound }

FoundTexts(found) ==
    [ i \in 1..Len(NoneFound) |->
        IF Len(found[i]) = 0 THEN <<>> ELSE << Text(ToString(i), found[i][1]) >> ]

\* the body: find_element raises, the text is empty, or longer than BodyLimit
Bodies == { <<>>, << "" >>, << Text("b", BodyLimit + 1) >> }

\* the fetches scrape_url_with_selenium is called on
RenderFetches ==
    { Fetch("ok", "", FoundTexts(found), body) : found \in Founds, body \in Bodies }
    \cup Elements(Fetches)

\* the nodes the edge lists are made of
BatchNodes ==
    { NodeUnknown, NodeNoListing, NodePromoted, EmptyDict,
      Typed("StartupSearchResult", Startup("Acme", "acme", << Listing("Data Analyst", "11") >>)) }

\* the longest list of edges handed to the loop
MaxEdges == 2

\* an edge carries its node under the key node, or lacks the key
EdgeLists == SeqsUpTo({ Edge(n) : n \in BatchNodes } \cup { EmptyDict }, MaxEdges)

(***************************************************************************)
(* State.                                                                  *)
(***************************************************************************)
VARIABLES
    rows,      \* the committed rows of job_listings
    nextId,    \* the next value of the SERIAL sequence of job_listings.id
    clock,     \* the timestamp the next inserting transaction gets
    dbErrors,  \* the calls that met an error of the database so far
    pc,        \* "idle", or where the running scrape_detail_pages is:
               \* "loop" (lines 450-476), "fallback" (lines 595-601); "call"
               \* while a function called on its own has not returned
    queue,     \* the items of jobs_to_update the running loop has not reached
    run,       \* what the running scrape_detail_pages has done so far
    last       \* the last call made on the JobScraper and what it did (Running
               \* while scrape_detail_pages is in its loop)

vars == << rows, nextId, clock, dbErrors, pc, queue, run, last >>

\* read_failed: the SELECT of get_jobs_without_descriptions raised; driver:
\* "none", "open" or "quit"; quits: the calls of driver.quit; gets: the ids
\* whose URL the driver was sent to; calls: the ids update_job_description
\* was called with; writes: the (id, text) pairs it committed; raised: the ids
\* for whose URL driver.get raised; reported: << the count the run prints when
\* it returns (lines 478, 603) >>, the only count it gives: it returns None
NoRun == [ read_failed |-> FALSE, jobs_to_update |-> <<>>, driver |-> "none", quits |-> 0,
           updated_count |-> 0, gets |-> <<>>, raised |-> <<>>, calls |-> <<>>, writes |-> <<>>,
           reported |-> <<>> ]

Init ==
    /\ rows = {}
    /\ nextId = 1
    /\ clock = 1
    /\ dbErrors = 0
    /\ pc = "idle"
    /\ queue = <<>>
    /\ run = NoRun
    /\ last = [ op |-> "none" ]

\* the rows of table that are not in before
Added(before, table) == Cardinality(table \ before)

\* a caller hands a batch to insert_jobs_to_database
InsertJobs ==
    /\ pc = "idle"
    /\ nextId <= MaxId
    /\ \E jobs \in DirectBatches : \E failAt \in FailPoints(jobs, dbErrors) :
         \E r \in { insert_jobs_to_database(rows, nextId, clock, jobs, failAt) } :
           /\ rows' = r.rows
           /\ dbErrors' = IF r.exc = "none" THEN dbErrors ELSE dbErrors + 1
           /\ nextId' = r.nextId
           /\ clock' = r.clock
           /\ last' = [ op |-> "insert_jobs_to_database", jobs |-> jobs,
                        exc |-> r.exc, reported |-> r.reported,
                        added |-> Added(rows, r.rows) ]
           /\ UNCHANGED << pc, queue, run >>

\* a caller runs the list phase: scrape_list_pages with the answers c.a, c.p;
\* the database can fail only when the insert is reached
ListPhase ==
    /\ pc = "idle"
    /\ nextId <= MaxId
    /\ \E c \in AcquireCases :
         \E failAt \in (IF c.acq.exc = "none" /\ Len(c.acq.all_jobs) > 0
                        THEN FailPoints(<<>>, dbErrors) ELSE { NoFailure }) :
         \E r \in { ListPagesAfter(rows, nextId, clock, c.acq, failAt) } :
           /\ rows' = r.ins.rows
           /\ dbErrors' = IF r.ins.exc = "none" THEN dbErrors ELSE dbErrors + 1
           /\ nextId' = r.ins.nextId
           /\ clock' = r.ins.clock
           /\ last' = [ op |-> "scrape_list_pages", resp |-> c.a, page |-> c.p,
                        exc |-> r.exc, returned |-> r.val, acq |-> r.acq,
                        insert_called |-> r.ins.called, insert_exc |-> r.ins.exc,
                        reported |-> r.ins.reported, added |-> Added(rows, r.ins.rows) ]
           /\ UNCHANGED << pc, queue, run >>

(***************************************************************************)
(* scrape_detail_pages (scraper.py 423-481) and                            *)
(* generate_fallback_descriptions (591-603), one step per loop iteration.  *)
(***************************************************************************)
\* scrape_detail_pages is running: no call has ended since it began
Running == [ op |-> "running" ]

\* the call ends: what it did goes to last.  exc is "none" when it returns.
Ended(r, exc) == [ op |-> "scrape_detail_pages", exc |-> exc ] @@ r

\* the driver is set up before the work items are looked at
DetailStartNoEarlyReturn ==
    /\ pc = "idle"
    /\ \E outcome \in DbOutcomes(dbErrors) :
         \E asc \in (IF Len(outcome) > 0 THEN { TRUE } ELSE BOOLEAN) :
           \E jobs_to_update \in { get_jobs_without_descriptions(rows, asc, Len(outcome) > 0) } :
             /\ dbErrors' = IF Len(outcome) > 0 THEN dbErrors + 1 ELSE dbErrors
             /\ pc' = "loop"
             /\ queue' = jobs_to_update
             /\ run' = [ NoRun EXCEPT !.jobs_to_update = jobs_to_update, !.driver = "open",
                                      !.read_failed = Len(outcome) > 0 ]
             /\ last' = Running
    /\ UNCHANGED << rows, nextId, clock >>

\* lines 430-445: the pending rows are read; with none the call returns; else
\* the driver is set up, and a failure of the setup leads to the fallback
\* loop.  The order of rows of equal scraped_at is open only when the SELECT
\* succeeds.
DetailStart ==
    /\ pc = "idle"
    /\ \E outcome \in DbOutcomes(dbErrors) :
         \E asc \in (IF Len(outcome) > 0 THEN { TRUE } ELSE BOOLEAN) :
           \E jobs_to_update \in { get_jobs_without_descriptions(rows, asc, Len(outcome) > 0) } :
             /\ dbErrors' = IF Len(outcome) > 0 THEN dbErrors + 1 ELSE dbErrors
             /\ IF Len(jobs_to_update) = 0
                THEN /\ last' = Ended([ NoRun EXCEPT !.read_failed = Len(outcome) > 0 ], "none")
                     /\ UNCHANGED << pc, queue, run >>
                ELSE \E setupFails \in BOOLEAN :
                       /\ pc' = IF setupFails THEN "fallback" ELSE "loop"
                       /\ queue' = jobs_to_update
                       /\ run' = [ NoRun EXCEPT !.jobs_to_update = jobs_to_update,
                                                !.driver = IF setupFails THEN "none" ELSE "open" ]
                       /\ last' = Running
    /\ UNCHANGED << rows, nextId, clock >>

\* the driver quits when the loop ends, not when an exception leaves it
QuitOnReturnOnly(r, exc) ==
    IF exc = "none" THEN [ r EXCEPT !.driver = "quit", !.quits = @ + 1 ] ELSE r

\* lines 480-481: the finally clause quits the driver, whether the try block
\* ended (exc = "none") or an exception leaves it
Finally(r, exc) == [ r EXCEPT !.driver = "quit", !.quits = @ + 1 ]

\* lines 454-460: the description of the item; fetched tells whether the
\* driver was sent to the URL, raised whether driver.get raised
Describe(job_id, job_url, c) ==
    IF IsSampleUrl(job_url)
    THEN [ fetched |-> FALSE, raised |-> FALSE, text |-> generate_sample_description(job_id) ]
    ELSE [ fetched |-> TRUE, raised |-> Fetches[c.f].get = "error", text |-> c.text ]

\* an iteration in which a fetch that raised leaves the loop instead of
\* giving its text to the update
ProcessItemFetchAborts(table, job_id, d, first, second) ==
    IF d.raised
    THEN [ exc |-> "Exception", rows |-> table, counted |-> 0, calls |-> <<>>, writes |-> <<>> ]
    ELSE IF d.text = ""
    THEN [ exc |-> "none", rows |-> table, counted |-> 0, calls |-> <<>>, writes |-> <<>> ]
    ELSE IF Len(first) = 0
    THEN [ exc |-> "none", rows |-> SetDescription(table, job_id, d.text), counted |-> 1,
           calls |-> << job_id >>, writes |-> << << job_id, d.text >> >> ]
    ELSE [ exc |-> "none",
           rows |-> SetDescription(table, job_id, FallbackDescription(first[1])),
           counted |-> 0, calls |-> << job_id, job_id >>,
           writes |-> << << job_id, FallbackDescription(first[1]) >> >> ]

\* lines 451-476 for one item whose description is d: the update when the text
\* is not empty, and the handler of line 471, which writes the fallback text;
\* first and second are the outcomes of the two UPDATE statements.  exc is the
\* exception that leaves the iteration.
ProcessItem(table, job_id, d, first, second) ==
    IF d.text = ""
    THEN [ exc |-> "none", rows |-> table, counted |-> 0, calls |-> <<>>, writes |-> <<>> ]
    ELSE IF Len(first) = 0
    THEN [ exc |-> "none", rows |-> SetDescription(table, job_id, d.text), counted |-> 1,
           calls |-> << job_id >>, writes |-> << << job_id, d.text >> >> ]
    ELSE IF Len(second) = 0
    THEN [ exc |-> "none",
           rows |-> SetDescription(table, job_id, FallbackDescription(first[1])),
           counted |-> 0, calls |-> << job_id, job_id >>,
           writes |-> << << job_id, FallbackDescription(first[1]) >> >> ]
    ELSE [ exc |-> "Exception", rows |-> table, counted |-> 0,
           calls |-> << job_id, job_id >>, writes |-> <<>> ]

\* one iteration of the loop of line 450; an exception that leaves it passes
\* the finally of line 480, which quits the driver, and ends the call
DetailItem ==
    /\ pc = "loop"
    /\ Len(queue) > 0
    /\ \E c \in FetchCases, first \in DbOutcomes(dbErrors), second \in DbOutcomes(dbErrors) :
         \E d \in { Describe(queue[1][1], queue[1][2], c) } :
           \E r \in { ProcessItem(rows, queue[1][1], d, first, second) } :
             \E after \in { [ run EXCEPT
                               !.updated_count = @ + r.counted,
                               !.gets = IF d.fetched THEN Append(@, queue[1][1]) ELSE @,
                               !.raised = IF d.raised THEN Append(@, queue[1][1]) ELSE @,
                               !.calls = @ \o r.calls,
                               !.writes = @ \o r.writes ] } :
               /\ rows' = r.rows
               /\ dbErrors' = IF Len(r.calls) > 1 THEN dbErrors + 1 ELSE dbErrors
               /\ IF r.exc = "none"
                  THEN /\ queue' = Tail(queue)
                       /\ run' = after
                       /\ UNCHANGED << pc, last >>
                  ELSE /\ pc' = "idle"
                       /\ queue' = <<>>
                       /\ run' = NoRun
                       /\ last' = Ended(Finally(after, r.exc), r.exc)
    /\ UNCHANGED << nextId, clock >>

\* lines 478-481: the loop is over, the count of line 478 is printed, the
\* driver quits, the call returns
DetailFinish ==
    /\ pc = "loop"
    /\ Len(queue) = 0
    /\ pc' = "idle"
    /\ run' = NoRun
    /\ last' = Ended(Finally([ run EXCEPT !.reported = << run.updated_count >> ], "none"), "none")
    /\ UNCHANGED << rows, nextId, clock, dbErrors, queue >>

\* an iteration that passes over its item and writes nothing
FallbackSkipsItem ==
    /\ pc = "fallback"
    /\ Len(queue) > 0
    /\ queue' = Tail(queue)
    /\ UNCHANGED << rows, nextId, clock, dbErrors, pc, run, last >>

\* lines 595-601: one iteration of generate_fallback_descriptions; an error
\* of the update is caught at line 600
FallbackItem ==
    /\ pc = "fallback"
    /\ Len(queue) > 0
    /\ \E outcome \in DbOutcomes(dbErrors) :
         \E u \in { update_job_description(rows, queue[1][1],
                                          generate_sample_description(queue[1][1]),
                                          Len(outcome) > 0) } :
           /\ rows' = u.rows
           /\ dbErrors' = IF u.exc = "none" THEN dbErrors ELSE dbErrors + 1
           /\ run' = [ run EXCEPT
                         !.calls = Append(@, queue[1][1]),
                         !.writes = IF u.exc = "none"
                                    THEN Append(@, << queue[1][1],
                                                      generate_sample_description(queue[1][1]) >>)
                                    ELSE @ ]
    /\ queue' = Tail(queue)
    /\ UNCHANGED << nextId, clock, pc, last >>

\* lines 603 and 445: the fallback loop is over, the count of line 603 is
\* printed, the call returns
FallbackFinish ==
    /\ pc = "fallback"
    /\ Len(queue) = 0
    /\ pc' = "idle"
    /\ run' = NoRun
    /\ last' = Ended([ run EXCEPT !.reported = << Len(run.jobs_to_update) >> ], "none")
    /\ UNCHANGED << rows, nextId, clock, dbErrors, queue >>

Next ==
    \/ InsertJobs
    \/ ListPhase
    \/ DetailStart
    \/ DetailItem
    \/ DetailFinish
    \/ FallbackItem
    \/ FallbackFinish

Spec == Init /\ [][Next]_vars


(***************************************************************************)
(* The functions called on their own: a call is chosen with its argument,  *)
(* and the one step of the behaviour is the function returning.            *)
(***************************************************************************)
Call(fn, arg) == [ op |-> "call", fn |-> fn, arg |-> arg ]

\* the most list items a page handed to scrape_weworkremotely holds
MaxItems == 12

\* titles the keyword filter of line 247 accepts
RelevantTitles == << "Senior DATA Engineer", "python dev", "Lead Analyst", "Research Scientist" >>

\* the list item at place i of a page, with a title the filter accepts or not
ListItem(i, relevant) ==
    Item("/remote-jobs/job-" \o ToString(i),
         IF relevant THEN RelevantTitles[(i % Len(RelevantTitles)) + 1] ELSE "Backend Engineer",
         "Acme")

\* n list items, those at the places of positions with an accepted title
ItemList(n, positions) == [ i \in 1..n |-> ListItem(i, i \in positions) ]

\* pages of ListLimit - 1 to MaxItems list items, with accepted titles at the
\* first place, around the limit and at the end, or at every place
ListedPages ==
    { Page("ok", 200, "ok", ItemList(n, positions)) :
        n \in (ListLimit - 1)..MaxItems,
        positions \in (SUBSET { 1, ListLimit, ListLimit + 1, MaxItems }) \cup { 1..MaxItems } }

\* the pages scrape_weworkremotely is called with: those of the list phase
\* and the pages above
WeWorkRemotelyPages == Elements(SecondaryPages) \cup ListedPages

\* the answers try_wellfound_scraping is called with: those of the list
\* phase and a payload for every list of edges
WellfoundAnswers ==
    Elements(PrimaryAnswers) \cup { Answer("ok", 200, "edges", edges) : edges \in EdgeLists }

Calls ==
    { Call("extract_job_data", node) : node \in Nodes }
    \cup { Call("try_wellfound_scraping", resp) : resp \in WellfoundAnswers }
    \cup { Call("format_salary", compensation) : compensation \in Compensations }
    \cup { Call("scrape_url_with_selenium", fetch) : fetch \in RenderFetches }
    \cup { Call("scrape_weworkremotely", page) : page \in WeWorkRemotelyPages }
    \cup { Call("get_jobs_without_descriptions", [ table |-> table, asc |-> asc, dbFails |-> dbFails ]) :
             table \in Tables, asc \in BOOLEAN, dbFails \in BOOLEAN }

FunctionsInit ==
    /\ rows = {}
    /\ nextId = 1
    /\ clock = 1
    /\ dbErrors = 0
    /\ pc = "call"
    /\ queue = <<>>
    /\ run = NoRun
    /\ last \in Calls

Called(fn) == pc = "call" /\ last.fn = fn

\* the call returns or raises: result is what it did
Return(result) ==
    /\ pc' = "idle"
    /\ last' = [ op |-> last.fn, arg |-> last.arg, result |-> result ]
    /\ UNCHANGED << rows, nextId, clock, dbErrors, queue, run >>

ExtractJobData == Called("extract_job_data") /\ Return(extract_job_data(last.arg))

TryWellfoundScraping == Called("try_wellfound_scraping") /\ Return(try_wellfound_scraping(last.arg))

FormatSalary == Called("format_salary") /\ Return(format_salary(last.arg))

GetJobsWithoutDescriptions ==
    /\ Called("get_jobs_without_descriptions")
    /\ Return(get_jobs_without_descriptions(last.arg.table, last.arg.asc, last.arg.dbFails))

ScrapeUrlWithSelenium ==
    Called("scrape_url_with_selenium") /\ Return(scrape_url_with_selenium(last.arg))

ScrapeWeWorkRemotely ==
    Called("scrape_weworkremotely") /\ Return(scrape_weworkremotely(last.arg))

FunctionsNext ==
    \/ ExtractJobData
    \/ TryWellfoundScraping
    \/ FormatSalary
    \/ GetJobsWithoutDescriptions
    \/ ScrapeUrlWithSelenium
    \/ ScrapeWeWorkRemotely

FunctionsSpec == FunctionsInit /\ [][FunctionsNext]_vars

(***************************************************************************)
(* Runs of scrape_detail_pages repeated over a table of pending rows, as   *)
(* main does once per start of the program (scraper.py 729-731): nothing   *)
(* is inserted and the database raises no error.                           *)
(***************************************************************************)
\* the most rows of the table the repeated runs start from
MaxBacklog == 11

\* n pending rows, inserted one transaction each; the rows whose id is in
\* real have a URL the driver is sent to, the others a URL at example.com
Backlog(n, real) ==
    { NewRow(Job("Data Analyst",
                 IF id \in real THEN "https://jobs.test/" \o ToString(id)
                 ELSE "https://example.com/job/" \o ToString(id),
                 "Test"),
             id, id) : id \in 1..n }

Backlogs ==
    { Backlog(n, real) : n \in { 1, 2, MaxBacklog }, real \in { {}, { 1 }, { 2 }, { MaxBacklog } } }

RepeatedRunsInit ==
    /\ rows \in Backlogs
    /\ nextId = Cardinality(rows) + 1
    /\ clock = Cardinality(rows) + 1
    /\ dbErrors = MaxDbErrors
    /\ pc = "idle"
    /\ queue = <<>>
    /\ run = NoRun
    /\ last = [ op |-> "none" ]

\* the steps of scrape_detail_pages
RepeatedRunsNext ==
    \/ DetailStart
    \/ DetailItem
    \/ DetailFinish
    \/ FallbackItem
    \/ FallbackFinish

\* a run that began goes on to its end (the loops are sequential code), and
\* runs are repeated as long as one changes anything
RepeatedRunsSpec ==
    RepeatedRunsInit /\ [][RepeatedRunsNext]_vars /\ WF_vars(RepeatedRunsNext)


(***************************************************************************)
(* Properties.                                                             *)
(***************************************************************************)
ListEnded == last.op = "scrape_list_pages"

InsertEnded == last.op = "insert_jobs_to_database"

DetailEnded == last.op = "scrape_detail_pages"

\* the answers the last list phase got
LastResp == PrimaryAnswers[last.resp]

LastPage == SecondaryPages[last.page]

UniqueUrl == \A r1, r2 \in rows : r1.job_url = r2.job_url => r1 = r2

\* row n is row r, but for job_description
SameListFields(r, n) == [ n EXCEPT !.job_description = r.job_description ] = r

\* C1: the table holds at most one row per job_url; every step keeps every
\* row, with the values its first write gave to all columns but
\* job_description, and a step of insert_jobs_to_database or of
\* scrape_list_pages changes no column at all of a row already there
C1_FirstWriteWins ==
    /\ []UniqueUrl
    /\ [][ \A r \in rows : \E n \in rows' :
             /\ SameListFields(r, n)
             /\ (pc = "idle" /\ last'.op \in { "insert_jobs_to_database", "scrape_list_pages" }
                   => n = r) ]_vars

\* an insert ended that carried a record with the URL of a stored row, with
\* another title, and that row has a description
C1_Witness ==
    /\ InsertEnded
    /\ last.exc = "none"
    /\ \E i \in 1..Len(last.jobs) : \E r \in rows :
         /\ r.job_url = last.jobs[i].job_url
         /\ r.job_title # last.jobs[i].job_title
         /\ r.job_description # NULL

\* C2: the count insert_jobs_to_database reports is the number of rows the
\* call added to the table
C2_ReportedIsAdded ==
    /\ InsertEnded /\ last.exc = "none" => last.reported = last.added
    /\ ListEnded /\ last.insert_called /\ last.insert_exc = "none" => last.reported = last.added

\* C3: the result of the list phase denotes the number of rows newly
\* inserted, not the size of the acquired batch
C3_ReturnsInsertedCount == ListEnded => Len(last.returned) = last.added

\* C4: a failure of the database ends the running phase with an exception:
\* of the insert in the list phase, of the read of the pending rows in the
\* detail phase
C4_PersistenceFailurePropagates ==
    /\ ListEnded /\ last.insert_exc # "none" => last.exc # "none"
    /\ DetailEnded /\ last.read_failed => last.exc # "none"

\* C5: whatever the two sources answer, scrape_list_pages returns: no
\* exception of the acquisition reaches its caller
C5_AcquisitionNeverRaises == ListEnded => last.exc = "none"

\* the list phase ended after the acquisition raised inside it
C5_Witness == ListEnded /\ last.acq.exc # "none" /\ last.exc = "none"

\* tier 1 failed: by a network error, or by a payload that cannot be parsed
Tier1Failed(resp) == resp.net = "error" \/ (resp.status = 200 /\ resp.body # "edges")

\* the fetch or the parse of tier 2 failed
Tier2Failed(page) == page.net = "error" \/ page.status >= 400 \/ page.parse = "error"

\* C6: a failure inside a tier counts as an empty result and the chain goes
\* on: tier 2 is attempted when tier 1 fails, and the sample jobs are emitted
\* when tier 2 fails
C6_FailureFallsThrough ==
    ListEnded =>
      /\ Tier1Failed(LastResp) => last.acq.tier2_called
      /\ last.acq.tier2_called /\ Tier2Failed(LastPage) => last.acq.all_jobs = sample_jobs

SampleEmitted(jobs) == Elements(jobs) \cap Elements(sample_jobs) # {}

\* C7: tier 2 is contacted only when tier 1 yielded no job, the sample jobs
\* are emitted only when tier 2 was contacted and parsed no job, and the jobs
\* of a tier 1 that yielded some are the acquired jobs, with no other
C7_TiersInOrder ==
    ListEnded =>
      LET tier1 == Tier1Table[last.resp] IN
      /\ last.acq.tier2_called => tier1.exc = "none" /\ Len(tier1.val) = 0
      /\ SampleEmitted(last.acq.all_jobs)
           => last.acq.tier2_called /\ ~Tier2Failed(LastPage) /\ Len(ParsedTable[last.page]) = 0
      /\ Len(tier1.val) > 0 => last.acq.all_jobs = tier1.val /\ ~last.acq.tier2_called

\* tier 1 yielded jobs and the page of tier 2 holds relevant items
C7_Witness ==
    /\ ListEnded
    /\ Len(last.acq.tier1) > 0
    /\ last.acq.all_jobs = last.acq.tier1
    /\ ~Tier2Failed(LastPage) /\ Len(ParsedJobs(LastPage)) > 0

Blocked(resp) == resp.net = "ok" /\ resp.status = 403

\* C8: on status 403 try_wellfound_scraping raises nothing, and the acquired
\* jobs are what scrape_weworkremotely yields for the page
C8_BlockedEqualsTier2 ==
    ListEnded /\ Blocked(LastResp) =>
      /\ Tier1Table[last.resp].exc = "none"
      /\ last.acq.exc = "none"
      /\ last.acq.all_jobs = Tier2Table[last.page].val

\* the primary source answered 403 and tier 2 parsed jobs from its page
C8_Witness ==
    /\ ListEnded /\ Blocked(LastResp)
    /\ Len(last.acq.all_jobs) > 0
    /\ ~SampleEmitted(last.acq.all_jobs)

\* the page was fetched and parsed, and none of its items is accepted
NoMatchingItem(page) ==
    /\ ~Tier2Failed(page)
    /\ \A i \in 1..Len(page.items) : Len(ItemJobs(page.items[i])) = 0

\* the pages that were fetched and parsed and hold no accepted item
NoMatchingPages == { p \in 1..Len(SecondaryPages) : NoMatchingItem(SecondaryPages[p]) }

DistinctUrls(jobs) == \A i, j \in 1..Len(jobs) : jobs[i].job_url = jobs[j].job_url => i = j

\* C9: with the primary source down and no matching item on the page of the
\* secondary source, the acquired jobs are the 5 sample jobs, of distinct URLs
C9_SampleCatalog ==
    ListEnded /\ LastResp.net = "error" /\ last.page \in NoMatchingPages =>
      /\ last.acq.all_jobs = sample_jobs
      /\ Len(last.acq.all_jobs) = 5
      /\ DistinctUrls(last.acq.all_jobs)

\* the primary source was down and the page held items, none accepted
C9_Witness ==
    /\ ListEnded /\ LastResp.net = "error"
    /\ NoMatchingItem(LastPage) /\ Len(LastPage.items) > 0
    /\ Len(last.acq.all_jobs) = 5

\* the jobs the primary source and the secondary source yield over all answers
PrimaryJobs ==
    UNION { Elements(try_wellfound_scraping(PrimaryAnswers[a]).val) : a \in 1..Len(PrimaryAnswers) }

SecondaryJobs ==
    UNION { Elements(ParsedJobs(SecondaryPages[p])) :
              p \in { q \in 1..Len(SecondaryPages) : ~Tier2Failed(SecondaryPages[q]) } }

\* C10: a sample job that is emitted carries a source_site that no job of the
\* primary source and no job of the secondary source carries
C10_SampleTagDistinct ==
    ListEnded =>
      \A j \in Elements(last.acq.all_jobs) \cap Elements(sample_jobs) :
        \A real \in PrimaryJobs \cup SecondaryJobs : j.source_site # real.source_site

\* the call of fn has ended
Returned(fn) == pc = "idle" /\ last.op = fn

\* the __typename of the node is one of the three extract_job_data knows
Recognized(node) == Get(node, "__typename", "") \in KnownTypenames

RecognizedEdge(edge) == Recognized(Get(edge, "node", EmptyDict))

\* C11: for a node whose __typename is none of the three known ones, or that
\* has none, extract_job_data returns None and raises nothing; in the loop of
\* try_wellfound_scraping such a node is skipped: nothing is raised and the
\* jobs are those the list yields with these edges taken out
C11_UnknownShapeSkipped ==
    /\ Returned("extract_job_data") /\ ~Recognized(last.arg) => last.result = Returns(<<>>)
    /\ Returned("try_wellfound_scraping") /\ last.arg.status = 200 /\ last.arg.body = "edges"
         => /\ last.result.exc = "none"
            /\ last.result = EdgesResult(SelectSeq(last.arg.edges, RecognizedEdge))

\* a list with an unknown node before a known one was walked, and the known
\* one gave its job
C11_Witness ==
    /\ Returned("try_wellfound_scraping")
    /\ Len(last.arg.edges) = 2
    /\ ~RecognizedEdge(last.arg.edges[1])
    /\ "node" \in DOMAIN last.arg.edges[1] /\ "__typename" \in DOMAIN last.arg.edges[1].node
    /\ Len(last.result.val) = 1

\* the node is of a known shape and holds a record with the job fields
HasTarget(node) ==
    /\ Recognized(node)
    /\ node["__typename"] = "FeaturedStartups" => Len(Get(node, "featuredStartups", <<>>)) > 0

\* the record that holds the company fields of a node of a known shape
Target(node) ==
    IF node["__typename"] = "StartupSearchResult" THEN node
    ELSE IF node["__typename"] = "PromotedResult" THEN Get(node, "promotedStartup", node)
    ELSE Get(node["featuredStartups"][1], "promotedStartup", node["featuredStartups"][1])

\* the title of the first listing of the record, <<>> when it has none
TitleOf(target) ==
    LET listings == Get(target, "highlightedJobListings", <<>>) IN
    IF Len(listings) = 0 THEN <<>> ELSE GetOpt(listings[1], "title")

\* C12: a node of a known shape is normalized whatever scalar field it lacks:
\* a missing title or company name reads "N/A", a missing location "Remote",
\* also when the list of listings is there and empty
C12_MissingFieldDefaults ==
    Returned("extract_job_data") /\ HasTarget(last.arg) =>
      LET target == Target(last.arg)
          title  == TitleOf(target)
      IN  /\ last.result.exc = "none"
          /\ Len(last.result.val) = 1
          /\ last.result.val[1].job_title = (IF Len(title) = 0 THEN "N/A" ELSE title[1])
          /\ last.result.val[1].company_name = Get(target, "name", "N/A")
          /\ last.result.val[1].location = Get(target, "location", "Remote")

\* a listing with no title, of a company with no name and no location, was
\* normalized
C12_Witness ==
    /\ Returned("extract_job_data") /\ HasTarget(last.arg)
    /\ DOMAIN Target(last.arg) \cap { "name", "location" } = {}
    /\ Len(last.result.val) = 1
    /\ last.result.val[1].job_title = "N/A"
    /\ last.result.val[1].company_name = "N/A"
    /\ last.result.val[1].location = "Remote"

\* the featured group with its first entry only
FirstOnly(node) == [ node EXCEPT !["featuredStartups"] = << @[1] >> ]

FeaturedWithEntries(node) ==
    /\ Get(node, "__typename", "") = "FeaturedStartups"
    /\ Len(Get(node, "featuredStartups", <<>>)) > 0

\* what the entries after the first have no part in: the result is that of
\* the group cut down to its first entry
LaterEntriesIgnored ==
    Returned("extract_job_data") /\ FeaturedWithEntries(last.arg)
      => last.result = extract_job_data(FirstOnly(last.arg))

\* C13: a FeaturedStartups node with one entry or more yields exactly one
\* job, built from the first entry alone
C13_FirstFeaturedOnly ==
    Returned("extract_job_data") /\ FeaturedWithEntries(last.arg) =>
      /\ Len(last.result.val) = 1
      /\ last.result = extract_job_data(FirstOnly(last.arg))

\* a group of three entries gave the job of its first entry
C13_Witness ==
    /\ Returned("extract_job_data") /\ FeaturedWithEntries(last.arg)
    /\ Len(last.arg["featuredStartups"]) = 3
    /\ Len(last.result.val) = 1
    /\ last.result.val[1].company_name = Get(Target(last.arg), "name", "N/A")

\* the compensation carries both bounds of the salary
BothBounds(compensation) ==
    Len(compensation) > 0 /\ { "minSalary", "maxSalary" } \subseteq DOMAIN compensation[1]

\* the compensation carries an equity range
EquityRange(compensation) ==
    /\ Len(compensation) > 0
    /\ "equity" \in DOMAIN compensation[1]
    /\ { "min", "max" } \subseteq DOMAIN compensation[1]["equity"]

\* "{currency} {min:,} - {max:,}"
RangeText(c) ==
    Get(c, "currency", "USD") \o " " \o Commas(c["minSalary"]) \o " - " \o Commas(c["maxSalary"])

\* "Equity: {min}-{max}%"
EquityText(c) == "Equity: " \o ToString(c["equity"]["min"]) \o "-" \o ToString(c["equity"]["max"]) \o "%"

\* C14: with both bounds of the salary the text holds the range after the
\* currency, with an equity range it holds the "Equity:" part, the two parts
\* are joined by " | " in this order, and with None, {} or no data of either
\* kind the text is "Not specified"
C14_SalaryFormatting ==
    Returned("format_salary") =>
      LET compensation == last.arg IN
      /\ BothBounds(compensation) => Contains(last.result, RangeText(compensation[1]))
      /\ EquityRange(compensation) => Contains(last.result, EquityText(compensation[1]))
      /\ BothBounds(compensation) /\ EquityRange(compensation)
           => last.result = RangeText(compensation[1]) \o " | " \o EquityText(compensation[1])
      /\ ~BothBounds(compensation) /\ ~EquityRange(compensation) => last.result = "Not specified"

\* a compensation with both bounds, a currency and an equity range was
\* formatted into the two parts
C14_Witness ==
    /\ Returned("format_salary")
    /\ BothBounds(last.arg) /\ EquityRange(last.arg)
    /\ last.result = "EUR 50,000 - 1,250,000 | Equity: 0-2%"

\* the row of the table with this id
RowOf(table, id) == CHOOSE r \in table : r.id = id

\* C15: when the SELECT succeeds, get_jobs_without_descriptions returns
\* (id, job_url) of rows whose job_description is NULL, each once, 10 at most
\* and all of them when they are fewer, by scraped_at from the newest on; a
\* row left out is no newer than any row returned
C15_PendingNewestFirst ==
    Returned("get_jobs_without_descriptions") /\ ~last.arg.dbFails =>
      LET table   == last.arg.table
          jobs    == last.result
          pending == { r \in table : r.job_description = NULL }
          ids     == { jobs[i][1] : i \in 1..Len(jobs) }
      IN  /\ \A i \in 1..Len(jobs) :
               \E r \in pending : jobs[i] = << r.id, r.job_url >>
          /\ Cardinality(ids) = Len(jobs)
          /\ Len(jobs) = (IF Cardinality(pending) < 10 THEN Cardinality(pending) ELSE 10)
          /\ \A i, j \in 1..Len(jobs) :
               i < j => RowOf(table, jobs[i][1]).scraped_at >= RowOf(table, jobs[j][1]).scraped_at
          /\ \A r \in pending : r.id \notin ids
               => \A i \in ids : RowOf(table, i).scraped_at >= r.scraped_at

\* more than 10 rows of several transactions were pending, some rows had a
\* description, and 10 were returned
C15_Witness ==
    /\ Returned("get_jobs_without_descriptions") /\ ~last.arg.dbFails
    /\ Cardinality({ r \in last.arg.table : r.job_description = NULL }) > 10
    /\ \E r \in last.arg.table : r.job_description # NULL
    /\ Cardinality({ r.scraped_at : r \in last.arg.table }) > 1
    /\ Len(last.result) = 10

\* the ids of the work items, in order
ItemIds(items) == [ i \in 1..Len(items) |-> items[i][1] ]

\* the text at index (id - 1) mod N of the N sample descriptions
Template(id) == sample_descriptions[((id - 1) % Len(sample_descriptions)) + 1]

\* scrape_detail_pages ended after the setup of the driver failed
SetupFailed == DetailEnded /\ Len(last.jobs_to_update) > 0 /\ last.driver = "none"

\* C16: when setup_selenium_driver fails, scrape_detail_pages returns
\* normally, the driver is sent to no URL, update_job_description is called
\* for every work item in turn, what is written for an item is the sample
\* description of its id and stands in its row, and with no error of the
\* database every item is written
C16_SetupFailureDegrades ==
    SetupFailed =>
      /\ last.exc = "none"
      /\ last.gets = <<>>
      /\ last.calls = ItemIds(last.jobs_to_update)
      /\ \A i \in 1..Len(last.writes) :
           /\ last.writes[i][2] = Template(last.writes[i][1])
           /\ RowOf(rows, last.writes[i][1]).job_description = << last.writes[i][2] >>
      /\ dbErrors = 0 => ItemIds(last.writes) = ItemIds(last.jobs_to_update)

\* the setup failed for a batch that holds an item with a URL outside
\* example.com, and every item was written
C16_Witness ==
    /\ SetupFailed
    /\ \E i \in 1..Len(last.jobs_to_update) : ~IsSampleUrl(last.jobs_to_update[i][2])
    /\ Len(last.jobs_to_update) > 1
    /\ ItemIds(last.writes) = ItemIds(last.jobs_to_update)

\* C17: a run of scrape_detail_pages that set up a driver ends with the
\* driver quit, by one call of driver.quit, whether it returns or an
\* exception leaves it; the driver is open, and not yet quit, all through
\* the loop, and no driver is held when no run is under way
C17_DriverReleasedOnce ==
    /\ DetailEnded /\ last.driver # "none" => last.driver = "quit" /\ last.quits = 1
    /\ DetailEnded /\ last.driver = "none" => last.quits = 0
    /\ pc = "loop" => run.driver = "open" /\ run.quits = 0
    /\ pc \in { "idle", "fallback" } => run.driver = "none"

\* a run ended by an exception of the database that left the loop after the
\* driver had been sent to a URL, and the driver was quit
C17_Witness ==
    /\ DetailEnded
    /\ last.exc # "none"
    /\ Len(last.gets) > 0
    /\ last.driver = "quit" /\ last.quits = 1

\* the URLs a row can have: those of the jobs of the two sources, of the
\* sample jobs and of the batches handed to insert_jobs_to_database
KnownUrls ==
    { j.job_url : j \in PrimaryJobs \cup SecondaryJobs \cup DirectJobs \cup Elements(sample_jobs) }

\* those that hold example.com
SampleUrls == { u \in KnownUrls : Contains(u, "example.com") }

\* the work items of the run whose URL holds example.com
SampleItems == { w \in Elements(last.jobs_to_update) : w[2] \in SampleUrls }

\* C18: for a work item whose URL holds example.com the driver is sent
\* nowhere; with no error of the database, what is written for it is the
\* sample description at index (id - 1) mod N, it is written when the run
\* returns, and two such items whose ids differ by a multiple of N get the
\* same text
C18_SampleUrlSynthetic ==
    DetailEnded =>
      /\ \A w \in SampleItems : w[1] \notin Elements(last.gets)
      /\ dbErrors = 0 =>
           /\ \A w \in SampleItems : \A x \in Elements(last.writes) :
                x[1] = w[1] => x[2] = Template(w[1])
           /\ last.exc = "none" => \A w \in SampleItems : w[1] \in Elements(ItemIds(last.writes))
           /\ \A w1, w2 \in SampleItems : \A x1, x2 \in Elements(last.writes) :
                x1[1] = w1[1] /\ x2[1] = w2[1] /\ (w1[1] - w2[1]) % Len(sample_descriptions) = 0
                  => x1[2] = x2[2]

\* a run with a driver wrote, for the items of ids 1 and 1 + N with URLs at
\* example.com, the same text, and for the id between them another
C18_Witness ==
    /\ DetailEnded /\ last.driver = "quit"
    /\ \E w1, w2 \in SampleItems : \E x1, x2, x3 \in Elements(last.writes) :
         /\ w1[1] = 1 /\ w2[1] = 1 + Len(sample_descriptions)
         /\ x1[1] = w1[1] /\ x2[1] = w2[1] /\ x1[2] = x2[2]
         /\ x3[1] = 2 /\ x3[2] # x1[2]

\* the selectors whose element has a text of more than 100 characters
Qualifying(found) == { i \in 1..Len(found) : Len(found[i]) > 0 /\ Len(found[i][1]) > 100 }

\* C19: a fetch that raises nothing returns the text of the first selector,
\* in the order of the list, whose text is longer than 100 characters; with
\* no such selector the text of the body cut to 2000 characters; with no
\* body the marker.  The text of a selector of 100 characters or fewer is
\* never what is returned.
C19_FirstQualifyingSelector ==
    Returned("scrape_url_with_selenium") /\ last.arg.get = "ok" =>
      LET found == last.arg.found
          body  == last.arg.body
      IN  /\ IF Qualifying(found) # {}
             THEN last.result = found[CHOOSE i \in Qualifying(found) :
                                        \A j \in Qualifying(found) : i <= j][1]
             ELSE IF Len(body) > 0 THEN last.result = Prefix(body[1], 2000)
             ELSE last.result = "Description could not be extracted from this URL"
          /\ \A i \in 1..Len(found) :
               Len(found[i]) > 0 /\ Len(found[i][1]) <= 100 => last.result # found[i][1]

\* two selectors qualified, after one whose text was too short, and the text
\* of the first of the two was returned
C19_Witness ==
    /\ Returned("scrape_url_with_selenium") /\ last.arg.get = "ok"
    /\ Cardinality(Qualifying(last.arg.found)) > 1
    /\ \E i \in 1..Len(last.arg.found) :
         /\ Len(last.arg.found[i]) > 0 /\ Len(last.arg.found[i][1]) <= 100
         /\ \A j \in Qualifying(last.arg.found) : i < j
    /\ last.result = last.arg.found[CHOOSE i \in Qualifying(last.arg.found) :
                                      \A j \in Qualifying(last.arg.found) : i <= j][1]

\* the messages of the errors driver.get raises
FetchErrors == { f.message : f \in { g \in Elements(Fetches) : g.get = "error" } }

\* C20: when the fetch of an item raised, the description stored for the
\* item (the database raising no error) holds the start of the message of
\* the error, and no more than its first 100 characters
C20_FetchErrorTruncated ==
    DetailEnded /\ dbErrors = 0 =>
      \A id \in Elements(last.raised) : \A w \in Elements(last.writes) :
        w[1] = id =>
          \E message \in FetchErrors :
            /\ Contains(w[2], Prefix(message, 100))
            /\ Len(message) > 100 => ~Contains(w[2], Prefix(message, 101))

\* driver.get raised for an item, with a message of more than 100
\* characters, and a description was stored for the item
C20_Witness ==
    /\ DetailEnded /\ dbErrors = 0
    /\ \E id \in Elements(last.raised) : \E w \in Elements(last.writes) :
         /\ w[1] = id
         /\ \E message \in FetchErrors : Len(message) > 100 /\ Contains(w[2], Prefix(message, 100))

\* the place of the item of this id in the work items
Index(items, id) == CHOOSE i \in 1..Len(items) : items[i][1] = id

\* the ids of the items the run took up: the driver was sent to the URL of
\* the item, or update_job_description was called for it
Processed == Elements(last.gets) \cup Elements(last.calls)

\* the run was left by an error of the database: the two UPDATE statements
\* of one item, that of line 464 and that of line 475, both raised
PersistenceAbort ==
    /\ last.exc # "none"
    /\ Len(last.calls) >= 2
    /\ last.calls[Len(last.calls)] = last.calls[Len(last.calls) - 1]
    /\ last.calls[Len(last.calls)] \notin Elements(ItemIds(last.writes))

\* the place of the last item the run reached
ReachedIndex ==
    IF last.exc = "none" THEN Len(last.jobs_to_update)
    ELSE Index(last.jobs_to_update, last.calls[Len(last.calls)])

\* C21: a fetch that raises does not end the run of scrape_detail_pages:
\* a run is left by an exception only when the database raised twice for
\* one item, and every item that follows an item whose fetch raised, up to
\* the end of the work items or to the item at which the database ended the
\* run, is taken up in the same run
C21_FetchFailureKeepsBatch ==
    DetailEnded =>
      /\ last.exc # "none" => PersistenceAbort
      /\ \A id \in Elements(last.raised) :
           \A j \in (Index(last.jobs_to_update, id) + 1)..ReachedIndex :
             last.jobs_to_update[j][1] \in Processed

\* the fetch of the first of three or more items raised, the run returned,
\* and the driver was sent to the URL of a later item
C21_Witness ==
    /\ DetailEnded /\ last.exc = "none"
    /\ Len(last.jobs_to_update) >= 3
    /\ Len(last.raised) > 0
    /\ last.raised[1] = last.jobs_to_update[1][1]
    /\ \E j \in 2..Len(last.jobs_to_update) : last.jobs_to_update[j][1] \in Elements(last.gets)
    /\ \A j \in 1..Len(last.jobs_to_update) : last.jobs_to_update[j][1] \in Processed

\* the run met no error of the database: the SELECT of the pending rows and
\* every UPDATE it sent succeeded
NoPersistenceError ==
    /\ ~last.read_failed
    /\ last.exc = "none"
    /\ Len(last.calls) = Len(last.writes)

\* C22: in a run of scrape_detail_pages that meets no error of the database
\* every work item is written under its own id: a text was written for it
\* and after the run its row holds a job_description, whatever the fetch
\* gave
C22_EveryItemWritten ==
    DetailEnded /\ NoPersistenceError =>
      \A w \in Elements(last.jobs_to_update) :
        /\ w[1] \in Elements(ItemIds(last.writes))
        /\ RowOf(rows, w[1]).job_description # <<>>

\* a run without error of the database in which a fetch raised, another
\* fetch gave a text and every item was written
C22_Witness ==
    /\ DetailEnded /\ NoPersistenceError
    /\ Len(last.raised) > 0
    /\ Len(last.gets) > Len(last.raised)
    /\ ItemIds(last.writes) = ItemIds(last.jobs_to_update)
    /\ \A w \in Elements(last.jobs_to_update) : RowOf(rows, w[1]).job_description # <<>>

\* the ids of the rows whose job_description the run wrote
WrittenIds == Elements(ItemIds(last.writes))

\* C23: a run of scrape_detail_pages over one or more work items that
\* returns reports the number of rows whose job_description it wrote, on
\* the path of the loop and on the path of the fallback descriptions
C23_CountIsRowsWritten ==
    DetailEnded /\ last.exc = "none" /\ Len(last.jobs_to_update) > 0 =>
      last.reported = << Cardinality(WrittenIds) >>

\* a run with a driver, in which a fetch raised, reported the two or more
\* rows it wrote
C23_Witness ==
    /\ DetailEnded /\ last.exc = "none" /\ last.driver = "quit"
    /\ Len(last.raised) > 0
    /\ Cardinality(WrittenIds) >= 2
    /\ last.reported = << Cardinality(WrittenIds) >>

\* C24: a call of scrape_detail_pages that gets no work item is a no-op
\* that succeeds: a call sets up a driver, or goes to the fallback
\* descriptions, only when a row is pending; a call that ends at once
\* returns without exception, with no work item, no driver set up or quit,
\* no URL fetched and no update called, and leaves every row as it was
C24_NoPendingIsNoOp ==
    [][ /\ pc = "idle" /\ pc' # "idle" => Pending(rows) # {} /\ Len(queue') > 0
        /\ pc = "idle" /\ pc' = "idle" /\ DetailEnded' =>
              /\ rows' = rows
              /\ last'.exc = "none"
              /\ last'.jobs_to_update = <<>>
              /\ last'.driver = "none" /\ last'.quits = 0
              /\ last'.gets = <<>> /\ last'.calls = <<>> /\ last'.writes = <<>>
      ]_vars

\* a call that read no pending row from a table whose rows all have a
\* description, and ended at once
C24_Witness ==
    /\ DetailEnded
    /\ ~last.read_failed
    /\ last.jobs_to_update = <<>>
    /\ last.driver = "none"
    /\ Cardinality(rows) >= 2
    /\ Pending(rows) = {}

\* the records of the result that are none of the sample jobs
RealRecords == SelectSeq(last.result.val, LAMBDA j : j \notin Elements(sample_jobs))

\* the record of line 248-255 for a list item
RecordOf(job_li) ==
    [ job_title |-> job_li["title"], company_name |-> job_li["company"], location |-> "Remote",
      salary_info |-> "Not specified",
      job_url |-> "https://weworkremotely.com" \o Get(job_li, "href", ""),
      source_site |-> "WeWorkRemotely" ]

\* the item has the link and the two spans a record is built from
Complete(job_li) == { "a", "title", "company" } \subseteq DOMAIN job_li

\* C25: every record scrape_weworkremotely returns that is no sample job is
\* the record of one of the first 10 list items of the page, and its title
\* holds, whatever the case of its letters, one of data, analyst, python,
\* scientist; they are 10 at most; a list item after the tenth (whose link
\* differs from those of the first ten) is never among them
C25_FirstTenFiltered ==
    Returned("scrape_weworkremotely") =>
      LET items == last.arg.items
          first == 1..(IF Len(items) < 10 THEN Len(items) ELSE 10)
      IN  /\ last.result.exc = "none"
          /\ \A k \in 1..Len(RealRecords) :
                /\ \E i \in first : Complete(items[i]) /\ RealRecords[k] = RecordOf(items[i])
                /\ \E term \in { "data", "analyst", "python", "scientist" } :
                     Contains(Lower(RealRecords[k].job_title), term)
          /\ Len(RealRecords) <= 10
          /\ \A i \in 11..Len(items) :
                Complete(items[i]) /\ (\A h \in first : Get(items[h], "href", "") # Get(items[i], "href", ""))
                  => \A k \in 1..Len(RealRecords) : RealRecords[k].job_url # RecordOf(items[i]).job_url

\* a page of more than 10 list items that all match: the 10 records of the
\* first 10 items are returned
C25_Witness ==
    /\ Returned("scrape_weworkremotely")
    /\ Len(last.arg.items) > 10
    /\ \A i \in 1..Len(last.arg.items) : Relevant(last.arg.items[i]["title"])
    /\ Len(RealRecords) = 10
    /\ RealRecords[10] = RecordOf(last.arg.items[10])

\* how often id stands in the sequence ids
Count(ids, id) == Cardinality({ i \in 1..Len(ids) : ids[i] = id })

\* C26: in one run of scrape_detail_pages the driver is sent at most once to
\* the URL of a work item and update_job_description is called at most once
\* with its id, also when the update raises
C26_ItemConsumedOnce ==
    DetailEnded =>
      \A w \in Elements(last.jobs_to_update) :
        /\ Count(last.gets, w[1]) <= 1
        /\ Count(last.calls, w[1]) <= 1

\* a run over the fallback descriptions in which an update raised: the
\* update was called once for every item, the one that raised included
C26_Witness ==
    /\ SetupFailed
    /\ Len(last.jobs_to_update) >= 2
    /\ Len(last.calls) > Len(last.writes)
    /\ \A w \in Elements(last.jobs_to_update) : Count(last.calls, w[1]) = 1

\* C27: when scrape_detail_pages is run again and again, with no row
\* inserted and no error of the database, there comes a time when no row
\* has a NULL job_description, whatever the fetches give
C27_PendingEventuallyEmpty == <>(Pending(rows) = {})

\* a table of more than 10 pending rows, one of them fetched by the driver,
\* has no pending row left after a second run
C27_Witness ==
    /\ DetailEnded
    /\ Cardinality(rows) > 10
    /\ Pending(rows) = {}
    /\ \E r \in rows : ~IsSampleUrl(r.job_url)
    /\ Len(last.jobs_to_update) > 0 /\ Len(last.jobs_to_update) < Cardinality(rows)

\* the step is one of scrape_detail_pages
DetailStep ==
    \/ pc # "idle"
    \/ pc = "idle" /\ (pc' # "idle" \/ DetailEnded')

\* C28: a step of scrape_detail_pages inserts no row and deletes none, and
\* changes in no row anything but job_description; the row it changes is
\* one of the work items the run read, and its job_description was NULL
C28_OnlyPendingDescriptions ==
    [][ DetailStep =>
          /\ { r.id : r \in rows' } = { r.id : r \in rows }
          /\ Cardinality(rows') = Cardinality(rows)
          /\ \A r \in rows :
                /\ [ RowOf(rows', r.id) EXCEPT !.job_description = r.job_description ] = r
                /\ RowOf(rows', r.id) # r =>
                      /\ r.job_description = NULL
                      /\ r.id \in Elements(ItemIds(run.jobs_to_update))
      ]_vars

\* a run wrote the description of a row while another row, which was no
\* work item of the run, kept the description an earlier run gave it
C28_Witness ==
    /\ DetailEnded
    /\ Len(last.writes) > 0
    /\ \E r \in rows :
         /\ r.job_description # NULL
         /\ r.id \notin Elements(ItemIds(last.jobs_to_update))
    /\ \A w \in Elements(last.writes) : RowOf(rows, w[1]).job_description = << w[2] >>

====
